---- MODULE Spec2Model ----
(***************************************************************************)
(* Model of the PDF retrieval pipeline of rag_superduperdb.py              *)
(* (PDFDocumentHandler) and of its caller ask_llm.py (get_answer_from_pdf  *)
(* and the module-level Streamlit flow).                                   *)
(*                                                                         *)
(* Strings that the code takes apart (the URL text area) are sequences of  *)
(* characters; "nl" is the newline character.  The web, the PDF parser,    *)
(* the semantic splitter and the vector store are external: the web and    *)
(* the documents are a fixed small world (HttpStatus, PdfPages, Score),    *)
(* the splitter is some fixed function from a text to one of its           *)
(* partitions into consecutive chunks, random.choices is a                 *)
(* nondeterministic choice.                                                *)
(***************************************************************************)
EXTENDS Integers, Sequences, FiniteSets, TLC

VARIABLES
    text_splitter,      \* handler.text_splitter: where the semantic splitter cuts each text
    db,                 \* handler.db: collection name -> sequence of stored records
    indexes,            \* handler.db: the VectorIndex components added with db.add
    doc_collection,     \* handler.doc_collection
    model,              \* handler.model
    pc,                 \* position of the running call
    entry,              \* the outermost function of the running call
    calls,              \* number of top-level calls made so far
    pdf_urls,           \* process_pdf: argument
    idx,                \* process_pdf: position of the for loop in pdf_urls
    pdf_bytes,          \* extract_text_with_page_numbers_from_url: local
    all_text_with_markers, \* process_pdf: local
    chunks_with_pages,  \* process_pdf: local (unbound until the loop body ran)
    search_term,        \* query argument / question
    num_results,        \* query_documents: argument
    result,             \* value returned by query_documents
    sources,            \* get_answer_from_pdf: context returned by predict
    error,              \* the exception that ended the call, "" if none
    ui,                 \* the running call, if a run of the Streamlit script: what it read and did
    log                 \* history of the running call's effects on the outside

vars == << text_splitter, db, indexes, doc_collection, model, pc, entry, calls, pdf_urls, idx,
           pdf_bytes, all_text_with_markers, chunks_with_pages, search_term,
           num_results, result, sources, error, ui, log >>

----------------------------------------------------------------------------
(* Bounds *)

MaxCalls == 2       \* top-level calls in one behaviour
MaxLen == 3         \* characters typed into the URL text area
NumLetters == 2     \* letters of the alphabet a collection name is drawn from
MaxK == 2           \* largest num_results a direct caller of query_documents passes

(* Program constants *)

DefaultNumResults == 1      \* query_documents(search_term, num_results=1)
ContextNumResults == 5      \* get_answer_from_pdf: num_results = 5
EnumerateStart == 1         \* enumerate(doc, start=1)

----------------------------------------------------------------------------
(* The world outside the program *)

Chars == {"a", "b", "nl"}
\* string.ascii_lowercase, cut to its first NumLetters letters
Letters == {<<"a", "b", "c", "d", "e", "f", "g", "h", "i", "j", "k", "l", "m">>[i]
            : i \in 1..NumLetters}
Questions == {"", "q"}

RECURSIVE SeqsUpTo(_, _)
SeqsUpTo(S, n) ==
    IF n = 0 THEN {<< >>}
    ELSE SeqsUpTo(S, n - 1) \cup
         {Append(s, c) : s \in {t \in SeqsUpTo(S, n - 1) : Len(t) = n - 1}, c \in S}

Texts == SeqsUpTo(Chars, MaxLen)

\* What the web answers to GET url: 0 stands for no response at all
\* (requests raises before sending, e.g. MissingSchema for the empty string).
HttpStatus(url) ==
    IF url = << >> THEN 0
    ELSE IF url \in {<<"a">>, <<"b">>, <<"b", "b">>} THEN 200
    ELSE 404

\* The pages of the PDF served at url, each page a sequence of sentences;
\* << >> stands for a body that is not a PDF.
PdfPages(url) ==
    IF url = <<"a">> THEN << <<"a11", "a12">>, <<"a21">> >>
    ELSE IF url = <<"b">> THEN << <<"b11">> >>
    ELSE << >>

IsPdf(bytes) == bytes # << >>

\* Similarity of a stored text to a query, as the embedding model scores it.
Weight(sentence) ==
    IF sentence = "a11" THEN 1
    ELSE IF sentence = "a21" THEN 3
    ELSE 2

Score(term, text) == IF term = "q" THEN Weight(text[1]) ELSE Len(text)

----------------------------------------------------------------------------
(* Values *)

NoCollection == [name |-> "", by |-> 0]
NoModel == [identifier |-> "", by |-> 0]
Unbound == [bound |-> FALSE, value |-> << >>]
NoUi == [ran |-> FALSE, text |-> << >>, question |-> "", invoked |-> FALSE]

\* ''.join(random.choices(string.ascii_lowercase, k=7)), one letter standing
\* for the seven
CollectionNames == Letters

----------------------------------------------------------------------------
(* Pure helpers *)

\* pdf_urls_input.split("\n"): the pieces between newlines, always at least one.
RECURSIVE SplitLines(_)
SplitLines(s) ==
    IF \A i \in 1..Len(s) : s[i] # "nl" THEN << s >>
    ELSE LET i == CHOOSE k \in 1..Len(s) :
                      s[k] = "nl" /\ \A j \in 1..(k - 1) : s[j] # "nl"
         IN  << SubSeq(s, 1, i - 1) >> \o SplitLines(SubSeq(s, i + 1, Len(s)))

\* Python truth of a list and of a str
TruthyList(l) == Len(l) > 0
TruthyStr(q) == q # ""

\* if pdf_urls and question:
ShouldAnswer(urls, question) == TruthyList(urls) /\ TruthyStr(question)

\* response.raise_for_status(): 4XX/5XX raise; no response raises in requests.get
FetchOk(url) == HttpStatus(url) >= 200 /\ HttpStatus(url) < 400

\* variant of PageNum: enumerate(doc) without start=1
PageNumFromZero(pos) == pos - 1

\* enumerate(doc, start=1): the number given to the page at position pos (1-based here)
PageNum(pos) == EnumerateStart + (pos - 1)

\* extract_text_with_page_numbers_from_url: [(text, page_num)] over the pages in order
ExtractPages(pages) == [i \in 1..Len(pages) |-> [text |-> pages[i], page_num |-> PageNum(i)]]

\* the ways to cut a text into consecutive non-empty chunks
RECURSIVE Splits(_)
Splits(text) ==
    IF text = << >> THEN {<< >>}
    ELSE UNION {
           {<< SubSeq(text, 1, i) >> \o rest : rest \in Splits(SubSeq(text, i + 1, Len(text)))}
           : i \in 1..Len(text)}

\* the texts the splitter can meet: the pages that can be fetched
PageTexts == UNION {{PdfPages(u)[i] : i \in DOMAIN PdfPages(u)} : u \in SeqsUpTo(Chars, MaxLen)}

\* SemanticChunker(HuggingFaceEmbeddings()): where it cuts is the embedding
\* model's business, the same text is always cut the same way
Splitters == {f \in [PageTexts -> UNION {Splits(t) : t \in PageTexts}] :
                \A t \in PageTexts : f[t] \in Splits(t)}

\* chunk_text: the chunks of every page in page order, each with the number of
\* its page and the url
RECURSIVE ChunkText(_, _, _)
ChunkText(splitter, markers, url) ==
    IF markers = << >> THEN << >>
    ELSE LET chunks == splitter[Head(markers).text]
         IN  [i \in 1..Len(chunks) |->
                 [text |-> chunks[i], page |-> Head(markers).page_num, url |-> url]]
             \o ChunkText(splitter, Tail(markers), url)

\* the list process_pdf holds after chunking one more document
\* (chunks_with_pages = self.chunk_text(...): the name is bound anew each time)
AssignChunks(held, new) == [bound |-> TRUE, value |-> new]

\* f'pymongo-docs-{self.model.identifier}'
IndexIdentifier(m) == << "pymongo-docs", m.identifier >>

\* variant of set_collection_name: a collection already set is kept
set_collection_name_once(current, name, call) ==
    IF current.by = 0 THEN [name |-> name, by |-> call] ELSE current

\* self.doc_collection = Collection(collection_name): a new Collection object;
\* "by" is the number of the call that created it, which tells two objects of
\* the same name apart
set_collection_name(current, name, call) == [name |-> name, by |-> call]

\* Model(identifier='all-MiniLM-L6-v2', ...): a new Model object, "by" as above
initialize_model(call) == [identifier |-> "all-MiniLM-L6-v2", by |-> call]

\* collection.like(Document({'text': term}), vector_index=..., n=n).find():
\* the n stored records nearest to the term, in the collection's own order,
\* each with its score.
Like(records, term, n) ==
    LET sc(i) == Score(term, records[i].text)
        ahead(i) == {j \in 1..Len(records) : sc(j) > sc(i) \/ (sc(j) = sc(i) /\ j < i)}
        scored == [i \in 1..Len(records) |->
                     [text |-> records[i].text, page |-> records[i].page,
                      url |-> records[i].url, score |-> sc(i), pos |-> i]]
        near == SelectSeq(scored, LAMBDA r : Cardinality(ahead(r.pos)) < n)
    IN  [i \in 1..Len(near) |->
            [text |-> near[i].text, page |-> near[i].page,
             url |-> near[i].url, score |-> near[i].score]]

\* variant of SortKey: key=lambda r: r['score']
SortKeyAscending(r) == r.score

\* key=lambda r: -r['score']
SortKey(r) == 0 - r.score

\* sorted(result, key=...): stable, ascending in the key
RECURSIVE Sorted(_)
Sorted(s) ==
    IF s = << >> THEN << >>
    ELSE LET init == Sorted(SubSeq(s, 1, Len(s) - 1))
             x == s[Len(s)]
             n == Cardinality({i \in 1..Len(init) : SortKey(init[i]) <= SortKey(x)})
         IN  SubSeq(init, 1, n) \o << x >> \o SubSeq(init, n + 1, Len(init))

\* an entry of log: what was done (index, fetch, extract, chunk, insert,
\* search, context_search), on which url, with which doc_collection in place,
\* under which index identifier, with which records, asking for how many results
Event(op, url, coll, ident, recs, n) ==
    [op |-> op, url |-> url, collection |-> coll, identifier |-> ident,
     records |-> recs, n |-> n]

----------------------------------------------------------------------------
(* State *)

Init ==
    /\ text_splitter \in Splitters
    /\ db = [c \in CollectionNames |-> << >>]
    /\ indexes = << >>
    /\ doc_collection = NoCollection
    /\ model = NoModel
    /\ pc = "idle"
    /\ entry = ""
    /\ calls = 0
    /\ pdf_urls = << >>
    /\ idx = 1
    /\ pdf_bytes = << >>
    /\ all_text_with_markers = << >>
    /\ chunks_with_pages = Unbound
    /\ search_term = ""
    /\ num_results = 0
    /\ result = << >>
    /\ sources = << >>
    /\ error = ""
    /\ ui = NoUi
    /\ log = << >>

CanCall == pc = "idle" /\ calls < MaxCalls

\* the lists of locations a direct caller passes
UrlLists == {SplitLines(t) : t \in Texts} \cup {<< >>}

\* the frame of a new top-level call
Enter(fn, urls, term, n, at, script) ==
    /\ entry' = fn
    /\ ui' = script
    /\ calls' = calls + 1
    /\ pdf_urls' = urls
    /\ search_term' = term
    /\ num_results' = n
    /\ pc' = at
    /\ UNCHANGED << idx, pdf_bytes, all_text_with_markers, chunks_with_pages,
                    result, sources, error, log >>

\* an exception leaves the call
Raise(e) ==
    /\ pc' = "raised"
    /\ error' = e

----------------------------------------------------------------------------
(* Entry points *)

\* ask_llm.py, one run of the script: a handler on a new in-memory database
\* (line 16), the two inputs (66-69) and the guarded call (71-72).
StreamlitRun ==
    \E text \in Texts, question \in Questions :
        /\ CanCall
        /\ text_splitter' = text_splitter
        /\ db' = [c \in CollectionNames |-> << >>]
        /\ indexes' = << >>
        /\ doc_collection' = NoCollection
        /\ model' = NoModel
        /\ Enter("streamlit", SplitLines(text), question, 0,
                 IF ShouldAnswer(SplitLines(text), question)
                 THEN "process_pdf" ELSE "returned",
                 [ran |-> TRUE, text |-> text, question |-> question,
                  invoked |-> ShouldAnswer(SplitLines(text), question)])

\* handler.get_relevant_docs(pdf_list, search_term)
CallGetRelevantDocs ==
    \E urls \in UrlLists, term \in {q \in Questions : TruthyStr(q)} :
        /\ CanCall
        /\ Enter("get_relevant_docs", urls, term, 0, "process_pdf", NoUi)
        /\ UNCHANGED << text_splitter, db, indexes, doc_collection, model >>

\* handler.query_documents(search_term, num_results)
CallQueryDocuments ==
    \E term \in Questions, k \in 0..MaxK :
        /\ CanCall
        /\ Enter("query_documents", << >>, term, k, "query_documents", NoUi)
        /\ UNCHANGED << text_splitter, db, indexes, doc_collection, model >>

----------------------------------------------------------------------------
(* process_pdf *)

\* variant of AfterBody: the loop is left after its first pass
AfterBodyFirstOnly(i, urls) ==
    IF i <= Len(urls) /\ i <= 1 THEN "download_pdf" ELSE "insert_documents"

\* the statement after one pass of the loop body: the next pass, or line 94
AfterBody(i, urls) == IF i <= Len(urls) THEN "download_pdf" ELSE "insert_documents"

\* lines 88-90: set_collection_name (a random name of lowercase letters and a
\* Collection of that name), initialize_model, and add_vector_index:
\* db.add(VectorIndex(identifier=..., indexing_listener=Listener(select=...)))
ProcessPdfSetup ==
    /\ pc = "process_pdf"
    /\ \E collection_name \in CollectionNames :
           doc_collection' = set_collection_name(doc_collection, collection_name, calls)
    /\ model' = initialize_model(calls)
    /\ indexes' = Append(indexes, [identifier |-> IndexIdentifier(model'),
                                   select |-> doc_collection'])
    /\ log' = Append(log, Event("index", << >>, doc_collection',
                                IndexIdentifier(model'), << >>, 0))
    /\ pc' = AfterBody(idx, pdf_urls)
    /\ UNCHANGED << text_splitter, db, entry, calls, pdf_urls, idx, pdf_bytes,
                    all_text_with_markers, chunks_with_pages, search_term,
                    num_results, result, sources, error, ui >>

\* lines 102, 79-81: requests.get and raise_for_status
DownloadPdf ==
    /\ pc = "download_pdf"
    /\ log' = Append(log, Event("fetch", pdf_urls[idx], doc_collection, << >>, << >>, 0))
    /\ IF FetchOk(pdf_urls[idx])
       THEN /\ pdf_bytes' = PdfPages(pdf_urls[idx])
            /\ pc' = "fitz_open"
            /\ error' = error
       ELSE /\ Raise(IF HttpStatus(pdf_urls[idx]) = 0 THEN "RequestException"
                     ELSE "HTTPError")
            /\ pdf_bytes' = pdf_bytes
    /\ UNCHANGED << text_splitter, db, indexes, doc_collection, model, entry, calls, pdf_urls,
                    idx, all_text_with_markers, chunks_with_pages, search_term,
                    num_results, result, sources, ui >>

\* lines 103-107: fitz.open(stream=pdf_bytes) and the loop over the pages
FitzOpen ==
    /\ pc = "fitz_open"
    /\ IF IsPdf(pdf_bytes)
       THEN /\ all_text_with_markers' = ExtractPages(pdf_bytes)
            /\ log' = Append(log, Event("extract", pdf_urls[idx], doc_collection,
                                        << >>, << >>, 0))
            /\ pc' = "chunk_text"
            /\ error' = error
       ELSE /\ Raise("FileDataError")
            /\ UNCHANGED << all_text_with_markers, log >>
    /\ UNCHANGED << text_splitter, db, indexes, doc_collection, model, entry, calls, pdf_urls,
                    idx, pdf_bytes, chunks_with_pages, search_term, num_results,
                    result, sources, ui >>

\* line 93: chunks_with_pages = self.chunk_text(all_text_with_markers, pdf_url)
ChunkTextStep ==
    /\ pc = "chunk_text"
    /\ LET new == ChunkText(text_splitter, all_text_with_markers, pdf_urls[idx])
       IN  /\ chunks_with_pages' = AssignChunks(chunks_with_pages, new)
           /\ log' = Append(log, Event("chunk", pdf_urls[idx], doc_collection,
                                       << >>, new, 0))
    /\ idx' = idx + 1
    /\ pc' = AfterBody(idx + 1, pdf_urls)
    /\ UNCHANGED << text_splitter, db, indexes, doc_collection, model, entry, calls, pdf_urls,
                    pdf_bytes, all_text_with_markers, search_term, num_results,
                    result, sources, error, ui >>

\* line 118: the splitter's embedding model fails
ChunkTextFails ==
    /\ pc = "chunk_text"
    /\ Raise("SplitterError")
    /\ UNCHANGED << text_splitter, db, indexes, doc_collection, model, entry, calls, pdf_urls,
                    idx, pdf_bytes, all_text_with_markers, chunks_with_pages,
                    search_term, num_results, result, sources, ui, log >>

\* lines 94, 128: db.execute(self.doc_collection.insert_many([...])); then
\* process_pdf returns and get_relevant_docs goes on to line 154,
\* self.query_documents(search_term), which leaves num_results to its default
InsertDocuments ==
    /\ pc = "insert_documents"
    /\ IF chunks_with_pages.bound
       THEN /\ db' = [db EXCEPT ![doc_collection.name] = @ \o chunks_with_pages.value]
            /\ log' = Append(log, Event("insert", << >>, doc_collection, << >>,
                                        chunks_with_pages.value, 0))
            /\ pc' = "query_documents"
            /\ num_results' = DefaultNumResults
            /\ error' = error
       ELSE /\ Raise("UnboundLocalError")
            /\ UNCHANGED << db, log, num_results >>
    /\ UNCHANGED << text_splitter, indexes, doc_collection, model, entry, calls, pdf_urls, idx,
                    pdf_bytes, all_text_with_markers, chunks_with_pages,
                    search_term, result, sources, ui >>

\* line 128: the store raises, before the write or after it (while the
\* listener embeds the new records)
InsertDocumentsFails ==
    /\ pc = "insert_documents"
    /\ chunks_with_pages.bound
    /\ \E written \in BOOLEAN :
           IF written
           THEN /\ db' = [db EXCEPT ![doc_collection.name] = @ \o chunks_with_pages.value]
                /\ log' = Append(log, Event("insert", << >>, doc_collection, << >>,
                                            chunks_with_pages.value, 0))
           ELSE UNCHANGED << db, log >>
    /\ Raise("InsertError")
    /\ UNCHANGED << text_splitter, indexes, doc_collection, model, entry, calls, pdf_urls, idx,
                    pdf_bytes, all_text_with_markers, chunks_with_pages,
                    search_term, num_results, result, sources, ui >>

----------------------------------------------------------------------------
(* query_documents and get_answer_from_pdf *)

\* where control goes when query_documents returns
AfterQuery(fn) == IF fn = "streamlit" THEN "predict" ELSE "returned"

\* lines 138-143: the search and the sort of what it returned
QueryDocuments ==
    /\ pc = "query_documents"
    /\ IF doc_collection = NoCollection \/ model = NoModel
       THEN /\ Raise("AttributeError")
            /\ UNCHANGED << result, log >>
       ELSE /\ result' = Sorted(Like(db[doc_collection.name], search_term, num_results))
            /\ log' = Append(log, Event("search", << >>, doc_collection,
                                        IndexIdentifier(model), << >>, num_results))
            /\ pc' = AfterQuery(entry)
            /\ error' = error
    /\ UNCHANGED << text_splitter, db, indexes, doc_collection, model, entry, calls, pdf_urls,
                    idx, pdf_bytes, all_text_with_markers, chunks_with_pages,
                    search_term, num_results, sources, ui >>

\* ask_llm.py lines 28-53: the getters, then predict with its own context search
Predict ==
    /\ pc = "predict"
    /\ sources' = Like(db[doc_collection.name], search_term, ContextNumResults)
    /\ log' = Append(log, Event("context_search", << >>, doc_collection,
                                IndexIdentifier(model), << >>, ContextNumResults))
    /\ pc' = "returned"
    /\ UNCHANGED << text_splitter, db, indexes, doc_collection, model, entry, calls, pdf_urls,
                    idx, pdf_bytes, all_text_with_markers, chunks_with_pages,
                    search_term, num_results, result, error, ui >>

\* the call is over (its value returned, or its exception reported): its frame
\* is dropped, the handler and its database stay
Return ==
    /\ pc \in {"returned", "raised"}
    /\ pc' = "idle"
    /\ entry' = ""
    /\ ui' = NoUi
    /\ pdf_urls' = << >>
    /\ idx' = 1
    /\ pdf_bytes' = << >>
    /\ all_text_with_markers' = << >>
    /\ chunks_with_pages' = Unbound
    /\ search_term' = ""
    /\ num_results' = 0
    /\ result' = << >>
    /\ sources' = << >>
    /\ error' = ""
    /\ log' = << >>
    /\ UNCHANGED << text_splitter, db, indexes, doc_collection, model, calls >>

----------------------------------------------------------------------------

Next ==
    \/ StreamlitRun
    \/ CallGetRelevantDocs
    \/ CallQueryDocuments
    \/ ProcessPdfSetup
    \/ DownloadPdf
    \/ FitzOpen
    \/ ChunkTextStep
    \/ ChunkTextFails
    \/ InsertDocuments
    \/ InsertDocumentsFails
    \/ QueryDocuments
    \/ Predict
    \/ Return

Spec == Init /\ [][Next]_vars

----------------------------------------------------------------------------
(* Reading the history of the running call *)

At(op) == {i \in DOMAIN log : log[i].op = op}
Body == SelectSeq(log, LAMBDA e : e.op \in {"fetch", "extract", "chunk"})
Ingesting == entry \in {"get_relevant_docs", "streamlit"} /\ pc # "process_pdf"
              /\ (entry = "streamlit" => ui.invoked)

\* text is a run of consecutive sentences of page
IsSpanOf(text, page) ==
    /\ text # << >>
    /\ \E from \in 1..Len(page) :
           /\ from + Len(text) - 1 <= Len(page)
           /\ text = SubSeq(page, from, from + Len(text) - 1)

\* the record belongs to one page of the document at its url
OfOnePage(r) ==
    /\ r.page \in 1..Len(PdfPages(r.url))
    /\ IsSpanOf(r.text, PdfPages(r.url)[r.page])

----------------------------------------------------------------------------
(* Claims *)

(* C1: once process_pdf has inserted for a non-empty list of locations whose   *)
(* fetch, extraction and chunking all succeeded, the inserted records include *)
(* the chunk records of every location of the list.                           *)
C1_AllLocationsInserted ==
    (Ingesting /\ error = "" /\ At("insert") # {} /\ pdf_urls # << >>) =>
        \A c \in At("chunk"), i \in At("insert") :
            \A k \in DOMAIN log[c].records :
                \E m \in DOMAIN log[i].records : log[i].records[m] = log[c].records[k]

(* C2: when the fetch of a location fails, the call ends with that error, no  *)
(* search has run, the location was fetched once, nothing was inserted and    *)
(* the call's collection is empty.                                            *)
C2_FetchFailureLeavesCollectionEmpty ==
    (Ingesting /\ pc = "raised" /\ error \in {"HTTPError", "RequestException"}) =>
        /\ At("search") = {} /\ At("context_search") = {}
        /\ Cardinality(At("fetch")) = idx
        /\ log[Len(log)].op = "fetch" /\ log[Len(log)].url = pdf_urls[idx]
        /\ At("insert") = {}
        /\ db[doc_collection.name] = << >>

\* the part of C2 that is the call's own doing: it stops at the failed fetch,
\* without retry, insert or search
C2_FetchFailureAborts ==
    (Ingesting /\ pc = "raised" /\ error \in {"HTTPError", "RequestException"}) =>
        /\ At("search") = {} /\ At("context_search") = {}
        /\ Cardinality(At("fetch")) = idx
        /\ log[Len(log)].op = "fetch" /\ log[Len(log)].url = pdf_urls[idx]
        /\ At("insert") = {}

(* C3: the search that get_relevant_docs runs asks for 5 results.             *)
C3_DefaultKIsFive ==
    Ingesting => \A i \in At("search") : log[i].n = 5

(* C4: query_documents(search_term, k) returns at most k results, in          *)
(* non-increasing order of score.                                             *)
C4_AtMostKSorted ==
    (At("search") # {} /\ pc \in {"returned", "predict"}) =>
        /\ Len(result) <= num_results
        /\ \A i \in 1..(Len(result) - 1) : result[i].score >= result[i + 1].score

C4_Witness ==
    /\ entry = "query_documents" /\ pc = "returned" /\ At("search") # {}
    /\ Len(db[doc_collection.name]) > num_results
    /\ Len(result) = num_results
    /\ \E i \in 1..(Len(result) - 1) : result[i].score > result[i + 1].score
    /\ result # Like(db[doc_collection.name], search_term, num_results)

(* C5: vector indexes declared for different collections carry different      *)
(* identifiers.                                                               *)
C5_IndexKeyedByCollection ==
    \A i, j \in DOMAIN indexes :
        indexes[i].select.name # indexes[j].select.name =>
            indexes[i].identifier # indexes[j].identifier

(* C6: no two calls of process_pdf on the same database use the same          *)
(* collection name, and a call's collection holds nothing when the call       *)
(* starts to fetch.                                                           *)
C6_FreshCollection ==
    /\ \A i, j \in DOMAIN indexes :
           i # j => indexes[i].select.name # indexes[j].select.name
    /\ (Ingesting /\ At("insert") = {}) => db[doc_collection.name] = << >>

(* C7: a run of the script with an empty URL text area or an empty question   *)
(* does not call get_answer_from_pdf, touches nothing and raises nothing.     *)
C7_NoInputIsNoOp ==
    (ui.ran /\ (ui.text = << >> \/ ui.question = "")) =>
        ~ui.invoked /\ log = << >> /\ error = ""

(* C8: every chunk record maps to one page of one document: its text is a run *)
(* of consecutive sentences of a single page, its page is that page's 1-based *)
(* position in the document, and its url is the location the document was     *)
(* fetched from; the extracted pages are numbered 1..n in order.              *)
C8_ChunkMapsToOnePage ==
    /\ (pc = "chunk_text") =>
           /\ Len(all_text_with_markers) = Len(PdfPages(pdf_urls[idx]))
           /\ \A i \in DOMAIN all_text_with_markers :
                  all_text_with_markers[i].page_num = i
    /\ \A c \in At("chunk") : \A k \in DOMAIN log[c].records :
           /\ log[c].records[k].url = log[c].url
           /\ log[c].url = pdf_urls[Cardinality({j \in At("chunk") : j <= c})]
           /\ OfOnePage(log[c].records[k])
    /\ \A name \in CollectionNames : \A k \in DOMAIN db[name] : OfOnePage(db[name][k])

C8_Witness ==
    /\ At("insert") # {}
    /\ \E k \in DOMAIN db[doc_collection.name] :
           /\ db[doc_collection.name][k].page = 2
           /\ db[doc_collection.name][k].url = <<"a">>
    /\ \E k \in DOMAIN db[doc_collection.name] :
           LET r == db[doc_collection.name][k]
           IN  Len(r.text) < Len(PdfPages(r.url)[r.page])

\* the stage an effect belongs to
Stage(op) ==
    IF op = "fetch" THEN 1
    ELSE IF op = "extract" THEN 2
    ELSE IF op = "chunk" THEN 3
    ELSE IF op = "insert" THEN 4
    ELSE 5

Staged == {i \in DOMAIN log : log[i].op # "index"}

(* C9: the effects of an ingestion call come in the order fetch, extract,     *)
(* chunk, insert, search and never go back to an earlier stage; the index is  *)
(* declared before the insert and the search runs only after the insert.      *)
(* (Read where no stage has failed, so that every fetch counted is one that   *)
(* delivered its document.)                                                   *)
C9_StagesNeverGoBack ==
    (Ingesting /\ error = "") =>
        /\ \A i, j \in Staged : i < j => Stage(log[i].op) <= Stage(log[j].op)
        /\ \A i \in At("insert") : \E x \in At("index") : x < i
        /\ \A s \in At("search") \cup At("context_search") :
               \E i \in At("insert") : i < s

(* C9 as amended: the index is declared first; the locations are handled one  *)
(* at a time in list order, each by fetch, extract, chunk; the single insert  *)
(* comes after every location has been fetched, extracted and chunked; the    *)
(* searches come only after the insert.                                       *)
C9_StagesPerLocation ==
    Ingesting =>
        /\ log # << >> => log[1].op = "index"
        /\ Cardinality(At("index")) <= 1
        /\ \A k \in DOMAIN Body :
               /\ Body[k].op = << "fetch", "extract", "chunk" >>[((k - 1) % 3) + 1]
               /\ (k - 1) \div 3 + 1 <= Len(pdf_urls)
               /\ Body[k].url = pdf_urls[(k - 1) \div 3 + 1]
        /\ Cardinality(At("insert")) <= 1
        /\ \A i \in At("insert") :
               /\ Cardinality({c \in At("chunk") : c < i}) = Len(pdf_urls)
               /\ \A j \in DOMAIN log :
                      j > i => log[j].op \in {"search", "context_search"}
        /\ \A s \in At("search") \cup At("context_search") :
               \E i \in At("insert") : i < s

C9_Witness ==
    /\ Ingesting
    /\ Len(pdf_urls) = 2
    /\ \E c \in At("chunk"), f \in At("fetch") : c < f
    /\ \E i \in At("insert"), s \in At("search") : i < s

(* C10: once process_pdf has begun, whatever stage it reaches or fails at,    *)
(* the handler's doc_collection and model are the ones that call created,     *)
(* every fetch and every search of the call was made with them in place, and  *)
(* the context search of get_answer_from_pdf targets that call's collection.  *)
C10_HandlerHoldsLatestCall ==
    Ingesting =>
        /\ doc_collection.by = calls
        /\ model.by = calls
        /\ \A i \in DOMAIN log : log[i].collection = doc_collection

C10_Witness ==
    /\ Ingesting
    /\ calls >= 2 /\ Len(indexes) >= 2
    /\ indexes[1].select.by < calls
    /\ pc = "raised"
    /\ doc_collection.by = calls

\* the same when the script's context search has run
C10_WitnessSearch ==
    /\ entry = "streamlit" /\ At("context_search") # {}
    /\ doc_collection.by = calls

====
